---- MODULE Spec2Model ----
(***************************************************************************)
(* VirtualTable (src/src/Table.tsx): a table whose body is windowed by a   *)
(* row virtualizer and whose scroll viewport is skinned by an overlay      *)
(* scrollbar.  The model covers the three parts of the component that      *)
(* carry state or arithmetic:                                              *)
(*   - the render step: the virtual items, the two paddings, the spacer    *)
(*     rows and the rendered body rows (lines 74-84, 140-164);             *)
(*   - the scroll handler and its Scroll State (lines 91-115);             *)
(*   - the mount effect that initializes the overlay and its cleanup       *)
(*     that destroys it (lines 117-123).                                   *)
(* The virtualizer and the overlay primitive are libraries the component   *)
(* calls; they are modelled by their contract (spec.md 4.1, 4.3, 6).       *)
(***************************************************************************)
EXTENDS Integers, Sequences, FiniteSets

\* ------------------------------------------------------------------ bounds
MaxRows == 16          \* rows.length ranges over 0..MaxRows
ViewportStep == 12     \* viewport heights are multiples of ViewportStep
MaxViewportSteps == 6  \* ... up to ViewportStep * MaxViewportSteps pixels
ScrollStep == 140      \* a scroll gesture lands on a multiple of ScrollStep or on the end
MaxScrollLeft == 1     \* horizontal scroll offsets 0..MaxScrollLeft
MaxTime == 2           \* Date.now() ranges over 1..MaxTime
MaxInstances == 2      \* overlay instances created in one run of the model

\* ------------------------------------------------------- program constants
estimateSizeShort == 35 - 1
estimateSize == 35     \* estimateSize: () => 35
overscanNarrow == 5 - 1
overscan == 5          \* overscan: 5
rowHeight == 35        \* <tr style={{ height: 35 }}>

VARIABLES
  rowCount,        \* rows.length (the data never changes after load)
  nullWhenUnsized, \* the virtualizer's choice for a viewport of size 0 (spec 4.1)
  pc,              \* "unmounted" | "committed" (effect pending) | "mounted"
  scrollRefSet,    \* scrollRef.current is an element
  parentRefSet,    \* parentRef.current is an element
  viewportSize,    \* height of the scroll element as the virtualizer observes it
  scrollTop,       \* vertical offset of the scroll element
  scrollLeft,      \* horizontal offset of the scroll element
  view,            \* what the last render produced
  scrollState,     \* useState({scrollX, scrollY, lastScrollXTime, lastScrollYTime})
  lastEvent,       \* the last scroll event the handler was called with
  osRef,           \* what osInstance() returns: 0 (nothing) or an instance id
  inst,            \* overlay instance id -> "none" | "alive" | "destroyed"
  destroys,        \* overlay instance id -> number of destroy() calls on it
  created,         \* number of overlay instances created so far
  lastRun,         \* the refs at the last run of the effect body
  threw            \* the effect or its cleanup raised an error

vars == << rowCount, nullWhenUnsized, pc, scrollRefSet, parentRefSet, viewportSize,
           scrollTop, scrollLeft, view, scrollState, lastEvent, osRef, inst,
           destroys, created, lastRun, threw >>

Min(a, b) == IF a < b THEN a ELSE b
Max(a, b) == IF a > b THEN a ELSE b

InstanceIds == 1..MaxInstances
ViewportSizes == { k * ViewportStep : k \in 0..MaxViewportSteps }

\* ------------------------------------------------------------- virtualizer
\* count: rows.length
countOffByOne == rowCount + 1
count == rowCount

\* getTotalSize(): the end of the last measurement.
getTotalSize == count * estimateSize

\* The index range of the rows under [off, off + size): from the last row that
\* starts at or before off to the first row that ends at or after off + size.
\* No range when there are no rows, or (one of the two outcomes spec 4.1 allows)
\* when the viewport has no size yet.
calculateRange(off, size) ==
  IF count = 0 \/ (size = 0 /\ nullWhenUnsized)
  THEN [none |-> TRUE, startIndex |-> 0, endIndex |-> 0]
  ELSE LET s == Min(off \div estimateSize, count - 1)
           e == Min(Max(s, (off + size - 1) \div estimateSize), count - 1)
       IN [none |-> FALSE, startIndex |-> s, endIndex |-> e]

\* getVirtualItems(): the range widened by overscan on both sides, clamped to
\* the rows there are, each item with its index and its start and end offsets.
getVirtualItems(off, size) ==
  LET r == calculateRange(off, size)
  IN IF r.none THEN << >>
     ELSE LET s == Max(r.startIndex - overscan, 0)
              e == Min(r.endIndex + overscan, count - 1)
          IN [ k \in 1..(e - s + 1) |->
                 [ index |-> s + k - 1,
                   start |-> (s + k - 1) * estimateSize,
                   end   |-> (s + k) * estimateSize ] ]

\* ------------------------------------------------------------------ render
paddingTop(items) == IF Len(items) > 0 THEN items[1].start ELSE 0

paddingBottomFromStart(items, total) ==
  IF Len(items) > 0 THEN total - items[Len(items)].start ELSE 0
paddingBottom(items, total) ==
  IF Len(items) > 0 THEN total - items[Len(items)].end ELSE 0

hasTopSpacerNonStrict(pt) == pt >= 0
hasTopSpacer(pt) == pt > 0
hasBottomSpacer(pb) == pb > 0

\* rows[virtualRow.index]: the row, or undefined (-1) outside the array.
rowAt(i) == IF i \in 0..(rowCount - 1) THEN i ELSE -1

\* The body of one render: the virtual items, the paddings, the spacers and the
\* rendered rows; reading row.id of an undefined row raises.
Render(off, size) ==
  LET items == getVirtualItems(off, size)
      total == getTotalSize
      pt    == paddingTop(items)
      pb    == paddingBottom(items, total)
      rs    == [ k \in 1..Len(items) |-> rowAt(items[k].index) ]
  IN [ items |-> items, totalSize |-> total,
       paddingTop |-> pt, paddingBottom |-> pb,
       topSpacer |-> hasTopSpacer(pt), bottomSpacer |-> hasBottomSpacer(pb),
       rows |-> rs,
       threw |-> (\E k \in 1..Len(rs) : rs[k] = -1) ]

NoView ==
  [ items |-> << >>, totalSize |-> 0, paddingTop |-> 0, paddingBottom |-> 0,
    topSpacer |-> FALSE, bottomSpacer |-> FALSE, rows |-> << >>, threw |-> FALSE ]

\* Height of the rendered <tbody>: the spacers that are rendered and the rows.
TrackHeight(v) ==
  (IF v.topSpacer THEN v.paddingTop ELSE 0)
  + Len(v.rows) * rowHeight
  + (IF v.bottomSpacer THEN v.paddingBottom ELSE 0)

\* The largest vertical offset the scroll element takes for a viewport height.
MaxScrollTop(size) == Max(0, rowCount * estimateSize - size)

\* ---------------------------------------------------------- scroll handler
InitialScrollState ==
  [ scrollX |-> 0, scrollY |-> 0, lastScrollXTime |-> 0, lastScrollYTime |-> 0 ]

scrollXChanged(scrollX) == (scrollX > 0 /\ scrollX = 0) \/ (scrollX = 0 /\ scrollX > 0)

scrollYChangedFromZero(scrollY) == scrollY > 0
scrollYChanged(scrollY) == (scrollY > 0 /\ scrollY = 0) \/ (scrollY = 0 /\ scrollY > 0)

\* events.scroll: the state after the handler ran on a target at (scrollX, scrollY).
onScroll(prev, scrollX, scrollY, now) ==
  IF scrollXChanged(scrollX)
  THEN [prev EXCEPT !.scrollX = scrollX, !.lastScrollXTime = now]
  ELSE IF scrollYChanged(scrollY)
  THEN [prev EXCEPT !.scrollY = scrollY, !.lastScrollYTime = now]
  ELSE prev

NoEvent == [ fired |-> FALSE, scrollLeft |-> 0, scrollTop |-> 0, time |-> 0 ]

\* ------------------------------------------------------- overlay primitive
valid(ref, ins) == ref # 0 /\ ins[ref] = "alive"

\* initialize({target, elements: {viewport}}): nothing when a valid instance is
\* present; raises when an element is missing; else a new instance, which
\* osInstance() returns from then on.
initialize(s, p, ref, ins, cr) ==
  IF valid(ref, ins)
  THEN [ osRef |-> ref, inst |-> ins, created |-> cr, threw |-> FALSE ]
  ELSE IF ~(s /\ p)
  THEN [ osRef |-> ref, inst |-> ins, created |-> cr, threw |-> TRUE ]
  ELSE [ osRef |-> cr + 1, inst |-> [ins EXCEPT ![cr + 1] = "alive"],
         created |-> cr + 1, threw |-> FALSE ]

\* instance.destroy()
destroy(i, ins, des) ==
  [ inst |-> [ins EXCEPT ![i] = "destroyed"],
    destroys |-> [des EXCEPT ![i] = @ + 1] ]

\* ------------------------------------------------------------------ effect
\* if (scrollRef.current && parentRef.current)
effectGuardEither(s, p) == s \/ p
effectGuard(s, p) == s /\ p

\* The effect body: initialize the overlay when both refs are set.
effectBody(s, p, ref, ins, cr) ==
  IF effectGuard(s, p)
  THEN initialize(s, p, ref, ins, cr)
  ELSE [ osRef |-> ref, inst |-> ins, created |-> cr, threw |-> FALSE ]

\* return () => osInstance()?.destroy()
cleanupNoDestroy(ref, ins, des) == [ inst |-> ins, destroys |-> des ]
cleanup(ref, ins, des) ==
  IF ref # 0 THEN destroy(ref, ins, des) ELSE [ inst |-> ins, destroys |-> des ]

RefsAtRun(s, p) == IF s /\ p THEN "refsSet" ELSE "refsUnset"

\* The scroll event of the overlay: delivered to the handler only while an
\* instance is alive on the viewport.
Dispatch(x, y, t) ==
  IF valid(osRef, inst)
  THEN /\ scrollState' = onScroll(scrollState, x, y, t)
       /\ lastEvent' = [ fired |-> TRUE, scrollLeft |-> x, scrollTop |-> y, time |-> t ]
  ELSE UNCHANGED << scrollState, lastEvent >>

\* ----------------------------------------------------------------- actions
Init ==
  /\ rowCount \in 0..MaxRows
  /\ nullWhenUnsized \in BOOLEAN
  /\ pc = "unmounted"
  /\ scrollRefSet = FALSE
  /\ parentRefSet = FALSE
  /\ viewportSize = 0
  /\ scrollTop = 0
  /\ scrollLeft = 0
  /\ view = NoView
  /\ scrollState = InitialScrollState
  /\ lastEvent = NoEvent
  /\ osRef = 0
  /\ inst = [ i \in InstanceIds |-> "none" ]
  /\ destroys = [ i \in InstanceIds |-> 0 ]
  /\ created = 0
  /\ lastRun = "none"
  /\ threw = FALSE

\* First render and commit of a fresh component: hooks start from their initial
\* values, both refs are attached to their <div> and the viewport is laid out.
Mount(size) ==
  /\ pc = "unmounted"
  /\ created < MaxInstances
  /\ pc' = "committed"
  /\ scrollRefSet' = TRUE
  /\ parentRefSet' = TRUE
  /\ viewportSize' = size
  /\ scrollTop' = 0
  /\ scrollLeft' = 0
  /\ view' = Render(0, size)
  /\ scrollState' = InitialScrollState
  /\ lastEvent' = NoEvent
  /\ osRef' = 0
  /\ lastRun' = "none"
  /\ threw' = FALSE
  /\ UNCHANGED << rowCount, nullWhenUnsized, inst, destroys, created >>

\* The same commit under a host that leaves a ref unattached: scrollRef and
\* parentRef start as null (useRef(null)) and stay so when the host provides no
\* element for them.  React DOM never does this; the action belongs to
\* GuardSpec alone, the environment in which the guard of the effect is false.
MountDetached(s, p, size) ==
  /\ ~(s /\ p)
  /\ pc = "unmounted"
  /\ created < MaxInstances
  /\ pc' = "committed"
  /\ scrollRefSet' = s
  /\ parentRefSet' = p
  /\ viewportSize' = (IF p THEN size ELSE 0)
  /\ scrollTop' = 0
  /\ scrollLeft' = 0
  /\ view' = Render(0, IF p THEN size ELSE 0)
  /\ scrollState' = InitialScrollState
  /\ lastEvent' = NoEvent
  /\ osRef' = 0
  /\ lastRun' = "none"
  /\ threw' = FALSE
  /\ UNCHANGED << rowCount, nullWhenUnsized, inst, destroys, created >>

\* The effect runs after the commit.
RunEffect ==
  /\ pc = "committed"
  /\ LET r == effectBody(scrollRefSet, parentRefSet, osRef, inst, created)
     IN /\ osRef' = r.osRef
        /\ inst' = r.inst
        /\ created' = r.created
        /\ threw' = (threw \/ r.threw)
  /\ lastRun' = RefsAtRun(scrollRefSet, parentRefSet)
  /\ pc' = "mounted"
  /\ UNCHANGED << rowCount, nullWhenUnsized, scrollRefSet, parentRefSet, viewportSize,
                  scrollTop, scrollLeft, view, scrollState, lastEvent, destroys >>

\* The effect runs again while mounted: its cleanup, then its body.
EffectRerun ==
  /\ pc = "mounted"
  /\ created < MaxInstances
  /\ LET c == cleanup(osRef, inst, destroys)
         r == effectBody(scrollRefSet, parentRefSet, osRef, c.inst, created)
     IN /\ osRef' = r.osRef
        /\ inst' = r.inst
        /\ created' = r.created
        /\ destroys' = c.destroys
        /\ threw' = (threw \/ r.threw)
  /\ lastRun' = RefsAtRun(scrollRefSet, parentRefSet)
  /\ UNCHANGED << rowCount, nullWhenUnsized, pc, scrollRefSet, parentRefSet,
                  viewportSize, scrollTop, scrollLeft, view, scrollState, lastEvent >>

\* Unmount: the cleanup of the effect runs and the elements go away.
Unmount ==
  /\ pc = "mounted"
  /\ LET c == cleanup(osRef, inst, destroys)
     IN /\ inst' = c.inst
        /\ destroys' = c.destroys
  /\ pc' = "unmounted"
  /\ scrollRefSet' = FALSE
  /\ parentRefSet' = FALSE
  /\ viewportSize' = 0
  /\ scrollTop' = 0
  /\ scrollLeft' = 0
  /\ view' = NoView
  /\ UNCHANGED << rowCount, nullWhenUnsized, scrollState, lastEvent, osRef, created,
                  lastRun, threw >>

\* Where a scroll gesture can land: the k-th multiple of ScrollStep, or the end
\* of the scroll range when that lies before it.
ScrollPositions == 0..((MaxRows * estimateSize) \div ScrollStep + 1)
ScrollTarget(k) == Min(k * ScrollStep, MaxScrollTop(viewportSize))

\* The viewport scrolls to (x, y) at time t: the virtualizer renders the new
\* window and the overlay delivers the scroll event.
ScrollTo(x, y, t) ==
  /\ pc # "unmounted"
  /\ parentRefSet
  /\ y \in 0..MaxScrollTop(viewportSize)
  /\ << x, y >> # << scrollLeft, scrollTop >>
  /\ scrollLeft' = x
  /\ scrollTop' = y
  /\ view' = Render(y, viewportSize)
  /\ Dispatch(x, y, t)
  /\ UNCHANGED << rowCount, nullWhenUnsized, pc, scrollRefSet, parentRefSet,
                  viewportSize, osRef, inst, destroys, created, lastRun, threw >>

\* A scroll gesture (wheel, keyboard, scrollbar track).
Scroll(x, k, t) == ScrollTo(x, ScrollTarget(k), t)

\* Dragging the scrollbar handle: the offset moves one pixel at a time.
Drag(d, t) == ScrollTo(scrollLeft, scrollTop + d, t)

\* The viewport is resized: the element clamps its offset to the new range
\* (a scroll event when that moves it) and the virtualizer renders again.
Resize(size) ==
  /\ pc # "unmounted"
  /\ parentRefSet
  /\ size # viewportSize
  /\ viewportSize' = size
  /\ LET y == Min(scrollTop, MaxScrollTop(size))
     IN /\ scrollTop' = y
        /\ view' = Render(y, size)
        /\ IF y # scrollTop
           THEN \E t \in 1..MaxTime : Dispatch(scrollLeft, y, t)
           ELSE UNCHANGED << scrollState, lastEvent >>
  /\ UNCHANGED << rowCount, nullWhenUnsized, pc, scrollRefSet, parentRefSet,
                  scrollLeft, osRef, inst, destroys, created, lastRun, threw >>

Next ==
  \/ \E size \in ViewportSizes : Mount(size)
  \/ RunEffect
  \/ EffectRerun
  \/ Unmount
  \/ \E x \in 0..MaxScrollLeft, k \in ScrollPositions, t \in 1..MaxTime : Scroll(x, k, t)
  \/ \E size \in ViewportSizes : Resize(size)

Spec == Init /\ [][Next]_vars

\* The component under a host that may leave refs unattached: every behaviour
\* of Spec, and those in which the effect meets an unset ref.
GuardNext ==
  \/ Next
  \/ \E s \in BOOLEAN, p \in BOOLEAN, size \in ViewportSizes : MountDetached(s, p, size)

GuardSpec == Init /\ [][GuardNext]_vars

\* The render step over every pixel offset: the component is mounted once with
\* both refs attached, at any row count and viewport height, the effect runs,
\* and the viewport is then dragged pixel by pixel and resized.
WindowNext ==
  \/ \E size \in ViewportSizes : Mount(size)
  \/ RunEffect
  \/ \E d \in {-1, 1}, t \in 1..MaxTime : Drag(d, t)
  \/ \E size \in ViewportSizes : Resize(size)

WindowSpec == Init /\ [][WindowNext]_vars

\* ------------------------------------------------------------- properties
Mounted == pc # "unmounted"
Indices(items) == { items[k].index : k \in 1..Len(items) }

\* C1 as stated: for every window the virtualizer returns, at any row count,
\* offset and viewport size, paddingTop + rows * 35 + paddingBottom equals
\* getTotalSize().  Fails for an empty window over a non-empty table.
C1_TrackHeightEveryWindow ==
  Mounted =>
    view.paddingTop + Len(view.rows) * 35 + view.paddingBottom = getTotalSize

\* C1 amended: for every non-empty window, and for an empty table, paddingTop +
\* rows * 35 + paddingBottom equals getTotalSize(), and the rendered body is
\* rowCount * 35 pixels high, a height no scroll or resize step between such
\* windows changes.
C1_TrackHeightNonEmptyWindow ==
  (Mounted /\ (Len(view.items) > 0 \/ rowCount = 0)) =>
    /\ view.paddingTop + Len(view.rows) * 35 + view.paddingBottom = getTotalSize
    /\ TrackHeight(view) = rowCount * 35

C1_Witness ==
  /\ Mounted
  /\ Len(view.items) > 0
  /\ view.paddingTop > 0
  /\ view.paddingBottom > 0
  /\ lastEvent.fired

\* C2: every index of the materialized window lies in [0, rowCount), the
\* indices are contiguous and ascending, and every rendered virtual item reads
\* a defined row.
C2_IndicesInRange ==
  Mounted =>
    /\ \A k \in 1..Len(view.items) :
         /\ view.items[k].index \in 0..(rowCount - 1)
         /\ k > 1 => view.items[k].index = view.items[k - 1].index + 1
         /\ view.rows[k] = view.items[k].index
    /\ Len(view.rows) = Len(view.items)
    /\ ~view.threw

C2_Witness ==
  /\ Mounted
  /\ Len(view.items) > 0
  /\ view.items[1].index > 0
  /\ view.items[Len(view.items)].index = rowCount - 1
  /\ scrollTop = MaxScrollTop(viewportSize)

\* Row j shares a stretch of positive length with the viewport.
Overlaps(j) == j * 35 < scrollTop + viewportSize /\ (j + 1) * 35 > scrollTop
\* Row j's box [j*35, (j+1)*35] meets [scrollTop, scrollTop + viewportSize],
\* if only in an edge.
Touches(j) == j * 35 <= scrollTop + viewportSize /\ (j + 1) * 35 >= scrollTop

\* C3 as stated: the materialized window is exactly the rows whose box
\* [i*35, (i+1)*35] intersects [scrollTop, scrollTop + viewportSize], extended
\* by 5 rows on each side and clamped to [0, rowCount).  Fails where a row only
\* touches the viewport in an edge (rowCount 16, viewport 36, offset 350: rows
\* 9..11 touch, giving 4..15, and the window is 5..15), and for an empty
\* window under a viewport of size 0.
C3_WindowIsClosedIntersection ==
  Mounted =>
    Indices(view.items) =
      { i \in 0..(rowCount - 1) :
          \E j \in 0..(rowCount - 1) : Touches(j) /\ i \in (j - 5)..(j + 5) }

\* C3 amended: for a viewport that has a size, the materialized window is
\* exactly the rows that share a stretch of positive length with the viewport,
\* extended by 5 rows on each side and clamped to [0, rowCount), and no row
\* whose box meets the viewport, even in an edge only, is missing from it.  For
\* a viewport of size 0 the window is empty or the row at the offset extended
\* by 5 rows on each side and clamped.
C3_WindowCoversViewport ==
  Mounted =>
    /\ viewportSize > 0 =>
         /\ Indices(view.items) =
              { i \in 0..(rowCount - 1) :
                  \E j \in 0..(rowCount - 1) : Overlaps(j) /\ i \in (j - 5)..(j + 5) }
         /\ \A j \in 0..(rowCount - 1) : Touches(j) => j \in Indices(view.items)
    /\ viewportSize = 0 =>
         \/ view.items = << >>
         \/ Indices(view.items) =
              { i \in 0..(rowCount - 1) :
                  i \in (Min(scrollTop \div 35, rowCount - 1) - 5)
                        ..(Min(scrollTop \div 35, rowCount - 1) + 5) }

\* A row touches the top edge of the viewport without lying under it, and the
\* window is clamped at neither end.
C3_Witness ==
  /\ Mounted
  /\ viewportSize > 0
  /\ Len(view.items) > 0
  /\ scrollTop % 35 = 0
  /\ view.items[1].index > 0
  /\ view.items[1].index = scrollTop \div 35 - 5
  /\ view.items[Len(view.items)].index < rowCount - 1

\* C4: an overlay instance is destroyed at most once; the only instance alive
\* is the one osInstance() returns while the component is mounted, which the
\* next cleanup destroys; once unmounted, every instance created has been
\* destroyed exactly once.
C4_DestroyedExactlyOnce ==
  \A i \in InstanceIds :
    /\ destroys[i] <= 1
    /\ (inst[i] = "destroyed") <=> (destroys[i] = 1)
    /\ (inst[i] = "none") <=> (i > created)
    /\ inst[i] = "alive" => (pc = "mounted" /\ osRef = i)
    /\ (pc = "unmounted" /\ i <= created) => (inst[i] = "destroyed" /\ destroys[i] = 1)

C4_Witness ==
  /\ pc = "unmounted"
  /\ created >= 2
  /\ \A i \in 1..created : inst[i] = "destroyed" /\ destroys[i] = 1

\* C5 (under GuardSpec): when the effect body last ran with a ref unset, no step creates or
\* destroys an overlay instance or raises: osInstance() stays empty, also across
\* the cleanup that matches the skipped run.
C5_SkippedAttach ==
  [][ lastRun' = "refsUnset" =>
        /\ osRef' = 0
        /\ created' = created
        /\ destroys' = destroys
        /\ inst' = inst
        /\ ~threw' ]_vars

C5_Witness ==
  /\ lastRun = "refsUnset"
  /\ pc = "unmounted"

\* C7 as stated: after the handler processed a scroll event, Scroll State
\* holds the event target's offsets and the capture time.
C7_ScrollStateTracksEvent ==
  lastEvent.fired =>
    /\ scrollState.scrollX = lastEvent.scrollLeft
    /\ scrollState.scrollY = lastEvent.scrollTop
    /\ scrollState.lastScrollXTime = lastEvent.time
    /\ scrollState.lastScrollYTime = lastEvent.time

\* C8: the number of materialized rows is at most ceil(viewportSize / 35) + 1
\* + 2 * 5, whatever the row count and offset, and getTotalSize() is
\* rowCount * 35.
C8_WindowBounded ==
  Mounted =>
    /\ Len(view.items) <= (viewportSize + 34) \div 35 + 1 + 2 * 5
    /\ Len(view.rows) = Len(view.items)
    /\ view.totalSize = rowCount * 35

C8_Witness ==
  /\ Mounted
  /\ viewportSize > 0
  /\ Len(view.items) = (viewportSize + 34) \div 35 + 1 + 2 * 5
  /\ rowCount > Len(view.items)

\* C9: with no rows the window is empty, both paddings are 0 and no spacer row
\* is rendered; and a spacer row is rendered only for a padding above 0.
C9_SpacersOnlyWhenPositive ==
  Mounted =>
    /\ rowCount = 0 =>
         /\ view.items = << >>
         /\ view.rows = << >>
         /\ view.paddingTop = 0
         /\ view.paddingBottom = 0
         /\ ~view.topSpacer
         /\ ~view.bottomSpacer
    /\ view.topSpacer => view.paddingTop > 0
    /\ view.bottomSpacer => view.paddingBottom > 0

C9_Witness ==
  /\ pc = "mounted"
  /\ rowCount = 0
  /\ viewportSize > 0
  /\ valid(osRef, inst)

\* C10: no scroll event, and no other event, ever changes Scroll State: it
\* keeps its initial value.
C10_ScrollStateNeverChanges ==
  scrollState = InitialScrollState

C10_Witness ==
  /\ lastEvent.fired
  /\ lastEvent.scrollLeft > 0
  /\ lastEvent.scrollTop > 0
  /\ scrollState = InitialScrollState

====
